---------------------------- MODULE Spec2Model ----------------------------
(***************************************************************************)
(* Model of the audit-event filter engine of natamm4/audit-tool:           *)
(* the pattern matcher AcceptString, the URI decomposer URIToParts, the    *)
(* filter primitives and the filter pipeline AuditFilters.FilterEvents,    *)
(* and of the query command that feeds it: Options.Run, setupFilters,      *)
(* multiNodeEventDecoder, decodeAuditEvents and the printers.              *)
(*                                                                         *)
(* A Go string is modelled as a sequence of atoms.  An atom is either one  *)
(* of the characters the code inspects ("-", "*", "/", "?") or an          *)
(* indivisible piece of text ("api", "namespaces", "a", ...).  No atom is  *)
(* the concatenation of other atoms, so equality of sequences is equality  *)
(* of the strings they spell.                                              *)
(***************************************************************************)
EXTENDS Integers, Sequences, FiniteSets, TLC

VARIABLES
    pc,             \* where the modelled function is: "call" or "run" before
                    \* it runs, "done" after
    allowedValues,  \* AcceptString: the pattern set (sets.String)
    currValue,      \* AcceptString: the value judged
    accepted,       \* AcceptString: the returned bool
    uri,            \* URIToParts: the raw request path
    parts,          \* URIToParts: the returned (ns, gvr, name, subresource)
    events,         \* FilterEvents: the input events
    filters,        \* FilterEvents: the configured filters, in order
    ret,            \* FilterEvents: the returned events
    options,        \* Options.Run: the flags of the query command
    files,          \* Options.Run: the audit files, in the order they are visited
    fileIndex,      \* multiNodeEventDecoder: the file the loop is at
    opened,         \* the files decodeAuditEvents has opened so far
    err,            \* Options.Run: how the run ended, "none" while it has not failed
    printed         \* Options.Run: the lines written to the output so far

\* the variables of a run of the query command
runVars == <<options, files, fileIndex, opened, err, printed>>

vars == <<pc, allowedValues, currValue, accepted, uri, parts, events, filters, ret,
          options, files, fileIndex, opened, err, printed>>

\* the zero value of the Options struct, part_001 lines 23-48: a string is "",
\* a slice is nil, a number is 0, a bool is false
ZeroOptions ==
    [nodes |-> <<>>, from |-> <<>>, to |-> <<>>, limit |-> 0,
     verbs |-> <<>>, resources |-> <<>>, subresources |-> <<>>,
     namespaces |-> <<>>, names |-> <<>>, users |-> <<>>, uids |-> <<>>,
     failedOnly |-> FALSE, httpStatusCodes |-> <<>>, output |-> <<>>,
     stages |-> <<>>, duration |-> <<>>, stats |-> FALSE]

\* no query command is run: the functions of package filter are called alone
NoRun ==
    /\ options = ZeroOptions
    /\ files = <<>>
    /\ fileIndex = 0
    /\ opened = <<>>
    /\ err = "none"
    /\ printed = <<>>

-----------------------------------------------------------------------------
(* Bounds of the model *)

\* most events of one FilterEvents call
MaxEvents == 3

\* most filters of one pipeline
MaxFilters == 2

\* most "/"-separated segments of a request path given to URIToParts
MaxSegments == 9

\* longest pattern / value of the AcceptString inputs, in atoms
MaxStrLen == 3

\* longest comma-separated flag value a pattern set is built from: every
\* pattern of the set costs its length plus one separator
MaxFlagLen == 7

-----------------------------------------------------------------------------
(* Go strings *)

\* the empty string ""
Empty == <<>>

\* "-" + s, as in "-" + currValue
Neg(s) == <<"-">> \o s

\* strings.HasPrefix(s, prefix)
HasPrefix(s, prefix) ==
    /\ Len(prefix) <= Len(s)
    /\ SubSeq(s, 1, Len(prefix)) = prefix

\* strings.HasSuffix(s, suffix)
HasSuffix(s, suffix) ==
    /\ Len(suffix) <= Len(s)
    /\ SubSeq(s, Len(s) - Len(suffix) + 1, Len(s)) = suffix

\* s[:len(s)-1]; only used where s ends in "*", so Len(s) >= 1
DropLast(s) == SubSeq(s, 1, Len(s) - 1)

\* all strings of at most n atoms over the alphabet A
RECURSIVE StringsUpTo(_, _)
StringsUpTo(A, n) ==
    IF n = 0 THEN {Empty}
    ELSE LET shorter == StringsUpTo(A, n - 1)
         IN  shorter \cup {Append(s, a) : s \in shorter, a \in A}

\* the position of the first atom c in s at or after position i, 0 when
\* there is none
RECURSIVE IndexFrom(_, _, _)
IndexFrom(s, c, i) ==
    IF i > Len(s) THEN 0
    ELSE IF s[i] = c THEN i
    ELSE IndexFrom(s, c, i + 1)

\* the position of the first atom c in s, 0 when there is none
IndexOf(s, c) == IndexFrom(s, c, 1)

\* strings.Split(s, sep) for a one-character separator: never empty,
\* Split("", sep) is [""]
RECURSIVE Split(_, _)
Split(s, sep) ==
    LET i == IndexOf(s, sep)
    IN  IF i = 0 THEN <<s>>
        ELSE <<SubSeq(s, 1, i - 1)>> \o Split(SubSeq(s, i + 1, Len(s)), sep)

\* strings.Join(elems, sep)
RECURSIVE Join(_, _)
Join(elems, sep) ==
    IF Len(elems) = 0 THEN Empty
    ELSE IF Len(elems) = 1 THEN elems[1]
    ELSE elems[1] \o <<sep>> \o Join(Tail(elems), sep)

-----------------------------------------------------------------------------
(* URIToParts, part_000 lines 246-355 *)

\* the four results (namespace, GroupVersionResource, name, subresource)
Parts(ns, group, version, resource, name, subresource) ==
    [ns |-> ns, group |-> group, version |-> version, resource |-> resource,
     name |-> name, subresource |-> subresource]

\* lines 247-249: ns, gvr and name before anything is parsed
NoParts == Parts(Empty, Empty, Empty, Empty, Empty, Empty)

\* a slip in lines 257-260: the query is not cut off before the split on "/"
PathSegments_KeepQuery(u) ==
    LET stripped == IF Len(u) >= 1 /\ u[1] = "/" THEN Tail(u) ELSE u
    IN  Split(stripped, "/")

\* lines 251-260: one leading "/" dropped, the query cut off, split on "/".
\* Go indexes parts from 0, the model from 1: parts[k] of the code is p[k+1].
PathSegments(u) ==
    LET stripped == IF Len(u) >= 1 /\ u[1] = "/" THEN Tail(u) ELSE u
    IN  Split(Split(stripped, "?")[1], "/")

\* a slip in lines 280-295: the namespace-object cases are missing, so every
\* path under /api/v1/namespaces is parsed as a namespaced resource
URIToPartsAPI_NoNamespaceObject(p) ==
    LET n == Len(p)
        version == IF n >= 2 THEN p[2] ELSE Empty
    IN  IF n < 3 THEN Parts(Empty, Empty, version, Empty, Empty, Empty)
        ELSE IF p[3] # <<"namespaces">> /\ n >= 4
            THEN Parts(Empty, Empty, version, p[3], p[4], Empty)
        ELSE IF p[3] # <<"namespaces">>
            THEN Parts(Empty, Empty, version, p[3], Empty, Empty)
        ELSE IF n < 4
            THEN Parts(Empty, Empty, version, Empty, Empty, Empty)
        ELSE Parts(p[4],
                   Empty,
                   version,
                   IF n >= 5 THEN p[5] ELSE Empty,
                   IF n >= 6 THEN p[6] ELSE Empty,
                   IF n >= 7 THEN Join(SubSeq(p, 7, n), "/") ELSE Empty)

\* a slip in lines 274-279: the segments after the name of a cluster-scoped
\* object are returned as its subresource
URIToPartsAPI_ClusterSubresource(p) ==
    LET n == Len(p)
        version == IF n >= 2 THEN p[2] ELSE Empty
    IN  IF n < 3 THEN Parts(Empty, Empty, version, Empty, Empty, Empty)
        ELSE IF p[3] # <<"namespaces">> /\ n >= 4
            THEN Parts(Empty, Empty, version, p[3], p[4],
                       IF n >= 5 THEN Join(SubSeq(p, 5, n), "/") ELSE Empty)
        ELSE IF p[3] # <<"namespaces">>
            THEN Parts(Empty, Empty, version, p[3], Empty, Empty)
        ELSE IF n = 3
            THEN Parts(Empty, Empty, version, p[3], Empty, Empty)
        ELSE IF n = 4
            THEN Parts(p[4], Empty, version, p[3], p[4], Empty)
        ELSE IF n = 5 /\ p[5] \in {<<"finalize">>, <<"status">>}
            THEN Parts(p[4], Empty, version, p[3], p[4], p[5])
        ELSE Parts(p[4],
                   Empty,
                   version,
                   IF n >= 5 THEN p[5] ELSE Empty,
                   IF n >= 6 THEN p[6] ELSE Empty,
                   IF n >= 7 THEN Join(SubSeq(p, 7, n), "/") ELSE Empty)

\* lines 265-316: root segment "api"
URIToPartsAPI(p) ==
    LET n == Len(p)
        version == IF n >= 2 THEN p[2] ELSE Empty                      \* 266-268
    IN  IF n < 3 THEN Parts(Empty, Empty, version, Empty, Empty, Empty) \* 269-271
        ELSE IF p[3] # <<"namespaces">> /\ n >= 4                       \* 274-279
            THEN Parts(Empty, Empty, version, p[3], p[4], Empty)
        ELSE IF p[3] # <<"namespaces">>                                 \* 274-275, 301-303
            THEN Parts(Empty, Empty, version, p[3], Empty, Empty)
        ELSE IF n = 3                                                   \* 280-282
            THEN Parts(Empty, Empty, version, p[3], Empty, Empty)
        ELSE IF n = 4                                                   \* 284-288
            THEN Parts(p[4], Empty, version, p[3], p[4], Empty)
        ELSE IF n = 5 /\ p[5] \in {<<"finalize">>, <<"status">>}        \* 290-295
            THEN Parts(p[4], Empty, version, p[3], p[4], p[5])
        ELSE Parts(p[4],                                                \* 305
                   Empty,
                   version,
                   IF n >= 5 THEN p[5] ELSE Empty,                      \* 306-308
                   IF n >= 6 THEN p[6] ELSE Empty,                      \* 309-311
                   IF n >= 7 THEN Join(SubSeq(p, 7, n), "/") ELSE Empty) \* 312-315

\* a slip in lines 344-354: the "apis" branch reads the namespaced segments at
\* the offsets of the "api" branch, one segment early
URIToPartsAPIs_OneEarly(p) ==
    LET n == Len(p)
        group == IF n >= 2 THEN p[2] ELSE Empty
        version == IF n >= 3 THEN p[3] ELSE Empty
    IN  IF n < 4 THEN Parts(Empty, group, version, Empty, Empty, Empty)
        ELSE IF p[4] # <<"namespaces">> /\ n >= 5
            THEN Parts(Empty, group, version, p[4], p[5], Empty)
        ELSE IF p[4] # <<"namespaces">>
            THEN Parts(Empty, group, version, p[4], Empty, Empty)
        ELSE IF n < 5
            THEN Parts(Empty, group, version, Empty, Empty, Empty)
        ELSE Parts(p[4],
                   group,
                   version,
                   IF n >= 5 THEN p[5] ELSE Empty,
                   IF n >= 6 THEN p[6] ELSE Empty,
                   IF n >= 7 THEN Join(SubSeq(p, 7, n), "/") ELSE Empty)

\* lines 322-354: root segment "apis"
URIToPartsAPIs(p) ==
    LET n == Len(p)
        group == IF n >= 2 THEN p[2] ELSE Empty                         \* 323-325
        version == IF n >= 3 THEN p[3] ELSE Empty                       \* 326-328
    IN  IF n < 4 THEN Parts(Empty, group, version, Empty, Empty, Empty)  \* 329-331
        ELSE IF p[4] # <<"namespaces">> /\ n >= 5                        \* 333-338
            THEN Parts(Empty, group, version, p[4], p[5], Empty)
        ELSE IF p[4] # <<"namespaces">>                                  \* 333-334, 340-342
            THEN Parts(Empty, group, version, p[4], Empty, Empty)
        ELSE IF n < 5                                                    \* 340-342
            THEN Parts(Empty, group, version, Empty, Empty, Empty)
        ELSE Parts(p[5],                                                 \* 344
                   group,
                   version,
                   IF n >= 6 THEN p[6] ELSE Empty,                       \* 345-347
                   IF n >= 7 THEN p[7] ELSE Empty,                       \* 348-350
                   IF n >= 8 THEN Join(SubSeq(p, 8, n), "/") ELSE Empty)  \* 351-354

\* a slip in lines 318-320: the check of the root segment is missing, so a
\* path under any other root is parsed as one under "apis"
URIToParts_NoRootCheck(u) ==
    LET p == PathSegments(u)
    IN  IF Len(p) = 0 THEN NoParts
        ELSE IF p[1] = <<"api">> THEN URIToPartsAPI(p)
        ELSE URIToPartsAPIs(p)

\* lines 246-355: the whole decomposition
URIToParts(u) ==
    LET p == PathSegments(u)
    IN  IF Len(p) = 0 THEN NoParts                    \* 261-263
        ELSE IF p[1] = <<"api">> THEN URIToPartsAPI(p)   \* 265-316
        ELSE IF p[1] # <<"apis">> THEN NoParts           \* 318-320
        ELSE URIToPartsAPIs(p)                        \* 322-354

-----------------------------------------------------------------------------
(* AcceptString, part_000 lines 429-468 *)

\* a slip in line 438: the prefix is tested on currValue, not on "-"+currValue
NegatedWildcardHit_NoDash(allowed, value) ==
    \E allowedValue \in allowed :
        /\ HasSuffix(allowedValue, <<"*">>)
        /\ HasPrefix(allowedValue, <<"-">>)
        /\ HasPrefix(value, DropLast(allowedValue))

\* lines 434-441: some pattern is a negated wildcard whose text without the
\* trailing "*" is a prefix of "-"+currValue.  The loop returns on the first
\* hit, so its outcome is the existence of a hit.
NegatedWildcardHit(allowed, value) ==
    \E allowedValue \in allowed :
        /\ HasSuffix(allowedValue, <<"*">>)
        /\ HasPrefix(allowedValue, <<"-">>)
        /\ HasPrefix(Neg(value), DropLast(allowedValue))

\* a slip in lines 444-450: an empty set is not taken for an all-negative one
AllValuesNegative_NonEmpty(allowed) ==
    /\ allowed # {}
    /\ \A allowedValue \in allowed : HasPrefix(allowedValue, <<"-">>)

\* lines 444-450: allValuesNegative
AllValuesNegative(allowed) ==
    \A allowedValue \in allowed : HasPrefix(allowedValue, <<"-">>)

\* a slip in line 459: negated wildcards are not skipped by the accept loop
PositiveWildcardHit_AnySign(allowed, value) ==
    \E allowedValue \in allowed :
        /\ HasSuffix(allowedValue, <<"*">>)
        /\ HasPrefix(value, DropLast(allowedValue))

\* lines 458-465: some pattern is a positive wildcard matching currValue
PositiveWildcardHit(allowed, value) ==
    \E allowedValue \in allowed :
        /\ HasSuffix(allowedValue, <<"*">>)
        /\ ~HasPrefix(allowedValue, <<"-">>)
        /\ HasPrefix(value, DropLast(allowedValue))

AcceptString(allowed, value) ==
    IF Neg(value) \in allowed THEN FALSE                  \* 431-433
    ELSE IF NegatedWildcardHit(allowed, value) THEN FALSE \* 434-441
    ELSE IF AllValuesNegative(allowed) THEN TRUE          \* 443-453
    ELSE IF value \in allowed THEN TRUE                   \* 455-457
    ELSE IF PositiveWildcardHit(allowed, value) THEN TRUE \* 458-465
    ELSE FALSE                                            \* 467

-----------------------------------------------------------------------------
(* Audit events and the filter primitives, part_000 lines 35-244, 357-427 *)

\* *auditv1.Event, with the fields the filters read.  id stands for the
\* pointer: two events of one input never share it.  ResponseStatus and
\* ObjectRef are pointers: <<>> is nil, <<x>> points to Code x / Name x.
Event(id, code, requestURI, verb, user, auditID, stage, ref, received, staged) ==
    [id |-> id, ResponseStatus |-> code, RequestURI |-> requestURI,
     Verb |-> verb, Username |-> user, AuditID |-> auditID,
     Stage |-> stage, ObjectRef |-> ref,
     RequestReceivedTimestamp |-> received, StageTimestamp |-> staged]

\* schema.GroupResource
GroupResource(group, resource) == [Group |-> group, Resource |-> resource]

\* a configured filter: its type and the one field the type has (the others
\* are left at their zero value)
Filter(kind, strings, codes, resources, time) ==
    [kind |-> kind, strings |-> strings, codes |-> codes,
     resources |-> resources, time |-> time]

FilterByFailures          == Filter("Failures", {}, {}, {}, 0)
FilterByHTTPStatus(codes) == Filter("HTTPStatus", {}, codes, {}, 0)
FilterByNamespaces(set)   == Filter("Namespaces", set, {}, {}, 0)
FilterBySubresources(set) == Filter("Subresources", set, {}, {}, 0)
FilterByNames(set)        == Filter("Names", set, {}, {}, 0)
FilterByUIDs(set)         == Filter("UIDs", set, {}, {}, 0)
FilterByUser(set)         == Filter("User", set, {}, {}, 0)
FilterByVerbs(set)        == Filter("Verbs", set, {}, {}, 0)
FilterByResources(set)    == Filter("Resources", {}, {}, set, 0)
FilterByStage(set)        == Filter("Stage", set, {}, {}, 0)
FilterByAfter(t)          == Filter("After", {}, {}, {}, t)
FilterByBefore(t)         == Filter("Before", {}, {}, {}, t)
FilterByDuration(d)       == Filter("Duration", {}, {}, {}, d)

\* Every primitive but FilterByResources is the loop "ret := []; for each
\* event, in order: if Keep(event) { ret = append(ret, event) }", which is
\* SelectSeq(events, Keep).

\* lines 38-51
FailuresFilterEvents(evs) ==
    LET Keep(e) == e.ResponseStatus # <<>> /\ e.ResponseStatus[1] > 299
    IN  SelectSeq(evs, Keep)

\* lines 57-70
HTTPStatusFilterEvents(f, evs) ==
    LET Keep(e) == e.ResponseStatus # <<>> /\ e.ResponseStatus[1] \in f.codes
    IN  SelectSeq(evs, Keep)

\* lines 76-88
NamespacesFilterEvents(f, evs) ==
    LET Keep(e) == AcceptString(f.strings, URIToParts(e.RequestURI).ns)
    IN  SelectSeq(evs, Keep)

\* a slip in lines 99-103: the case of the lone "-*" is missing
SubresourcesFilterEvents_NoLoneDashStar(f, evs) ==
    LET Keep(e) == AcceptString(f.strings, URIToParts(e.RequestURI).subresource)
    IN  SelectSeq(evs, Keep)

\* lines 94-110
SubresourcesFilterEvents(f, evs) ==
    LET Keep(e) ==
            LET subresource == URIToParts(e.RequestURI).subresource
            IN  \/ /\ <<"-", "*">> \in f.strings
                   /\ Cardinality(f.strings) = 1
                   /\ Len(subresource) = 0
                \/ AcceptString(f.strings, subresource)
    IN  SelectSeq(evs, Keep)

\* a slip in lines 128-135: the name of the object reference is not consulted
NamesFilterEvents_URIOnly(f, evs) ==
    LET Keep(e) == AcceptString(f.strings, URIToParts(e.RequestURI).name)
    IN  SelectSeq(evs, Keep)

\* lines 116-138
NamesFilterEvents(f, evs) ==
    LET Keep(e) ==
            \/ AcceptString(f.strings, URIToParts(e.RequestURI).name)
            \/ /\ e.ObjectRef # <<>>
               /\ AcceptString(f.strings, e.ObjectRef[1])
    IN  SelectSeq(evs, Keep)

\* lines 144-155
UIDsFilterEvents(f, evs) ==
    LET Keep(e) == AcceptString(f.strings, e.AuditID)
    IN  SelectSeq(evs, Keep)

\* lines 161-172
UserFilterEvents(f, evs) ==
    LET Keep(e) == AcceptString(f.strings, e.Username)
    IN  SelectSeq(evs, Keep)

\* lines 178-189
VerbsFilterEvents(f, evs) ==
    LET Keep(e) == AcceptString(f.strings, e.Verb)
    IN  SelectSeq(evs, Keep)

\* lines 212-222: the anti-match scan; it breaks on the first hit
AntiMatched(Resources, group, resource) ==
    \E currResource \in Resources :
        \/ currResource.Group = <<"*">> /\ currResource.Resource = Neg(resource)
        \/ currResource.Resource = <<"-", "*">> /\ currResource.Group = group

\* a slip in lines 236-239: the accept scan has no case for a "*" resource
WildcardMatched_NoResourceWildcard(Resources, group, resource) ==
    \E currResource \in Resources :
        \/ currResource.Group = <<"*">> /\ currResource.Resource = <<"*">>
        \/ currResource.Group = <<"*">> /\ currResource.Resource = resource

\* lines 227-240: the accept scan; it appends once and breaks on the first hit
WildcardMatched(Resources, group, resource) ==
    \E currResource \in Resources :
        \/ currResource.Group = <<"*">> /\ currResource.Resource = <<"*">>
        \/ currResource.Group = <<"*">> /\ currResource.Resource = resource
        \/ currResource.Resource = <<"*">> /\ currResource.Group = group

\* a slip in lines 203-205: the exact anti-match is not looked up
ResourcesAppended_NoExactAntiMatch(Resources, e) ==
    LET gvr == URIToParts(e.RequestURI)
        exact == IF GroupResource(gvr.group, gvr.resource) \in Resources
                 THEN <<e>> ELSE <<>>
    IN  IF AntiMatched(Resources, gvr.group, gvr.resource)
            THEN exact
        ELSE IF WildcardMatched(Resources, gvr.group, gvr.resource)
            THEN exact \o <<e>>
        ELSE exact

\* lines 198-240: what one iteration of the loop appends to ret for event e.
\* The append of line 207 is not followed by a continue: the iteration goes
\* on to both scans.
ResourcesAppended(Resources, e) ==
    LET gvr == URIToParts(e.RequestURI)                                \* 199
        antiMatch == GroupResource(gvr.group, Neg(gvr.resource))       \* 200
        exact == IF GroupResource(gvr.group, gvr.resource) \in Resources
                 THEN <<e>> ELSE <<>>                                  \* 206-208
    IN  IF antiMatch \in Resources THEN <<>>                           \* 203-205
        ELSE IF AntiMatched(Resources, gvr.group, gvr.resource)
            THEN exact                                                 \* 223-225
        ELSE IF WildcardMatched(Resources, gvr.group, gvr.resource)
            THEN exact \o <<e>>                                        \* 227-240
        ELSE exact

\* lines 195-244
RECURSIVE ResourcesFilterEvents(_, _)
ResourcesFilterEvents(f, evs) ==
    IF evs = <<>> THEN <<>>
    ELSE ResourcesAppended(f.resources, Head(evs))
             \o ResourcesFilterEvents(f, Tail(evs))

\* lines 361-378
StageFilterEvents(f, evs) ==
    LET Keep(e) == e.Stage \in f.strings
    IN  IF Cardinality(f.strings) = 0 THEN evs      \* 363-365
        ELSE SelectSeq(evs, Keep)

\* lines 384-394
AfterFilterEvents(f, evs) ==
    LET Keep(e) == e.RequestReceivedTimestamp > f.time
    IN  SelectSeq(evs, Keep)

\* lines 400-411
BeforeFilterEvents(f, evs) ==
    LET Keep(e) == e.RequestReceivedTimestamp < f.time
    IN  SelectSeq(evs, Keep)

\* lines 417-427
DurationFilterEvents(f, evs) ==
    LET Keep(e) == e.StageTimestamp - e.RequestReceivedTimestamp <= f.time
    IN  SelectSeq(evs, Keep)

\* filter.FilterEvents(events...) through the AuditFilter interface, lines 18-20
FilterEvents(f, evs) ==
    CASE f.kind = "Failures"     -> FailuresFilterEvents(evs)
      [] f.kind = "HTTPStatus"   -> HTTPStatusFilterEvents(f, evs)
      [] f.kind = "Namespaces"   -> NamespacesFilterEvents(f, evs)
      [] f.kind = "Subresources" -> SubresourcesFilterEvents(f, evs)
      [] f.kind = "Names"        -> NamesFilterEvents(f, evs)
      [] f.kind = "UIDs"         -> UIDsFilterEvents(f, evs)
      [] f.kind = "User"         -> UserFilterEvents(f, evs)
      [] f.kind = "Verbs"        -> VerbsFilterEvents(f, evs)
      [] f.kind = "Resources"    -> ResourcesFilterEvents(f, evs)
      [] f.kind = "Stage"        -> StageFilterEvents(f, evs)
      [] f.kind = "After"        -> AfterFilterEvents(f, evs)
      [] f.kind = "Before"       -> BeforeFilterEvents(f, evs)
      [] f.kind = "Duration"     -> DurationFilterEvents(f, evs)

\* a slip in line 29: every filter is given events, not ret, so only the last
\* filter decides
AuditFiltersFilterEvents_LastOnly(fs, evs) ==
    IF fs = <<>> THEN evs
    ELSE FilterEvents(fs[Len(fs)], evs)

\* a slip in lines 25-26: ret is first set by the first filter called on
\* events, so with no filter it is still nil
RECURSIVE AuditFiltersFilterEvents_NilWithoutFilters(_, _)
AuditFiltersFilterEvents_NilWithoutFilters(fs, evs) ==
    IF fs = <<>> THEN <<>>
    ELSE IF Len(fs) = 1 THEN FilterEvents(fs[1], evs)
    ELSE AuditFiltersFilterEvents_NilWithoutFilters(Tail(fs),
                                                    FilterEvents(Head(fs), evs))

\* AuditFilters.FilterEvents, lines 24-33: ret starts as a copy of events and
\* every filter, in order, replaces it by what it returns for it
RECURSIVE AuditFiltersFilterEvents(_, _)
AuditFiltersFilterEvents(fs, evs) ==
    IF fs = <<>> THEN evs
    ELSE AuditFiltersFilterEvents(Tail(fs), FilterEvents(Head(fs), evs))

-----------------------------------------------------------------------------
(* Specification SpecAccept: one call of AcceptString on bounded inputs *)

\* the characters AcceptString inspects, and two ordinary letters
PatternAtoms == {"-", "*", "a", "b"}

Patterns == StringsUpTo(PatternAtoms, MaxStrLen)

\* the sets of patterns whose flag text has at most w characters
RECURSIVE SetsOfWeight(_)
SetsOfWeight(w) ==
    {{}} \cup UNION {
        LET smaller == SetsOfWeight(w - l - 1)
        IN  {T \cup {p} : T \in smaller, p \in {q \in Patterns : Len(q) = l}}
        : l \in {k \in 0..MaxStrLen : k + 1 <= w} }

\* sets.NewString(o.users...) and the like: every set a flag can spell
PatternSets == SetsOfWeight(MaxFlagLen)

InitAccept ==
    /\ pc = "call"
    /\ allowedValues \in PatternSets
    /\ currValue \in Patterns
    /\ accepted = FALSE
    /\ uri = Empty
    /\ parts = NoParts
    /\ NoRun
    /\ events = <<>>
    /\ filters = <<>>
    /\ ret = <<>>

CallAcceptString ==
    /\ pc = "call"
    /\ accepted' = AcceptString(allowedValues, currValue)
    /\ pc' = "done"
    /\ UNCHANGED <<allowedValues, currValue, uri, parts, events, filters, ret, runVars>>

NextAccept == CallAcceptString

SpecAccept == InitAccept /\ [][NextAccept]_vars

-----------------------------------------------------------------------------
(* Claims about AcceptString, stated in the words of the specification *)

\* pattern p is a negated wildcard: starts with "-", ends with "*"
IsNegatedWildcard(p) ==
    Len(p) >= 2 /\ p[1] = "-" /\ p[Len(p)] = "*"

\* pattern p is a positive wildcard: ends with "*", does not start with "-"
IsPositiveWildcard(p) ==
    Len(p) >= 1 /\ p[Len(p)] = "*" /\ p[1] # "-"

\* t is a prefix of s
IsPrefixOf(t, s) ==
    Len(t) <= Len(s) /\ \A i \in 1..Len(t) : t[i] = s[i]

\* some negated literal or negated wildcard of S excludes v
Excluded(S, v) ==
    \/ <<"-">> \o v \in S
    \/ \E p \in S : /\ IsNegatedWildcard(p)
                    /\ IsPrefixOf(SubSeq(p, 1, Len(p) - 1), <<"-">> \o v)

\* S lists v as a literal or holds a positive wildcard matching v
PositivelyMatched(S, v) ==
    \/ v \in S
    \/ \E p \in S : /\ IsPositiveWildcard(p)
                    /\ IsPrefixOf(SubSeq(p, 1, Len(p) - 1), v)

\* every pattern of S starts with "-"
AllNegative(S) == \A p \in S : Len(p) >= 1 /\ p[1] = "-"

\* C3: AcceptString returns false whenever the set holds the negated literal
\* "-"+value or a negated wildcard whose text without the "*" is a prefix of
\* "-"+value, whatever else the set holds.
C3_NegationRejects ==
    (pc = "done" /\ Excluded(allowedValues, currValue)) => accepted = FALSE

\* C3 witness: a value excluded by a negated pattern although the set also
\* lists it as a literal or matches it with a positive wildcard
C3_Witness ==
    /\ pc = "done"
    /\ Excluded(allowedValues, currValue)
    /\ PositivelyMatched(allowedValues, currValue)
    /\ \E p \in allowedValues : IsNegatedWildcard(p) /\ Len(p) = 3
    /\ accepted = FALSE

\* C4: with an all-negative set (the empty set included) AcceptString returns
\* true for every value that no negated literal or negated wildcard excludes
\* (and false for the excluded ones).
C4_AllNegativeAcceptsByDefault ==
    (pc = "done" /\ AllNegative(allowedValues))
        => (accepted = ~Excluded(allowedValues, currValue))

\* C4 witness: accept({-a*}, b) = true, the shape of accept({-kube-*}, other)
C4_Witness ==
    /\ pc = "done"
    /\ allowedValues = {<<"-", "a", "*">>}
    /\ currValue = <<"b">>
    /\ accepted = TRUE

\* C5: when the set holds a pattern that does not start with "-" and no negated
\* pattern excludes value, AcceptString returns true if and only if the set
\* lists value as a literal or holds a positive wildcard whose text without
\* the "*" is a prefix of value.
C5_PositiveMatch ==
    (pc = "done" /\ ~AllNegative(allowedValues)
                 /\ ~Excluded(allowedValues, currValue))
        => (accepted = PositivelyMatched(allowedValues, currValue))

\* C5 witness: accept({a*, -b}, ab) = true through the wildcard alone
C5_Witness ==
    /\ pc = "done"
    /\ allowedValues = {<<"a", "*">>, <<"-", "b">>}
    /\ currValue = <<"a", "b">>
    /\ accepted = TRUE

-----------------------------------------------------------------------------
(* Specification SpecURI: one call of URIToParts on bounded request paths *)

\* what the k-th segment of a generated path may be: the words the parser
\* looks for at and around the places it looks for them, other names, and
\* the empty segment
SegmentChoices(k) ==
    CASE k = 1 -> {<<"api">>, <<"apis">>, <<"a">>, Empty}
      [] k = 2 -> {<<"v1">>, <<"a">>}
      [] k = 3 -> {<<"namespaces">>, <<"v1">>, <<"a">>}
      [] k = 4 -> {<<"namespaces">>, <<"a">>, Empty}
      [] k = 5 -> {<<"finalize">>, <<"status">>, <<"a">>}
      [] OTHER -> {<<"a">>, <<"status">>}

\* the segment lists of exactly n segments
RECURSIVE SegmentLists(_)
SegmentLists(n) ==
    IF n = 0 THEN {<<>>}
    ELSE {Append(l, g) : l \in SegmentLists(n - 1), g \in SegmentChoices(n)}

\* the query suffixes: none, an empty one, one holding a "/", one holding a
\* second "?"
QuerySuffixes ==
    {Empty, <<"?">>, <<"?", "a", "/", "b">>, <<"?", "a", "?", "/", "b">>}

\* event.RequestURI: with or without the leading "/", with or without query
RequestURIs ==
    {lead \o Join(l, "/") \o q :
        lead \in {Empty, <<"/">>},
        l \in UNION {SegmentLists(n) : n \in 1..MaxSegments},
        q \in QuerySuffixes}

InitURI ==
    /\ pc = "call"
    /\ uri \in RequestURIs
    /\ parts = NoParts
    /\ NoRun
    /\ allowedValues = {}
    /\ currValue = Empty
    /\ accepted = FALSE
    /\ events = <<>>
    /\ filters = <<>>
    /\ ret = <<>>

CallURIToParts ==
    /\ pc = "call"
    /\ parts' = URIToParts(uri)
    /\ pc' = "done"
    /\ UNCHANGED <<uri, allowedValues, currValue, accepted, events, filters, ret, runVars>>

NextURI == CallURIToParts

SpecURI == InitURI /\ [][NextURI]_vars

-----------------------------------------------------------------------------
(* Claims about URIToParts, stated on the segments of the path *)

\* the path the decomposer looks at: the text after one leading "/" and
\* before the first "?"
PathText(u) ==
    LET v == IF u # <<>> /\ Head(u) = "/" THEN SubSeq(u, 2, Len(u)) ELSE u
        q == {i \in 1..Len(v) : v[i] = "?"}
    IN  IF q = {} THEN v
        ELSE SubSeq(v, 1, (CHOOSE i \in q : \A j \in q : i <= j) - 1)

\* the positions of the "/" of path t
Slashes(t) == {i \in 1..Len(t) : t[i] = "/"}

\* how many segments path t has
SegmentCount(t) == Cardinality(Slashes(t)) + 1

\* where segment k of path t starts and where it ends
SegmentStart(t, k) ==
    IF k = 1 THEN 1
    ELSE 1 + CHOOSE i \in Slashes(t) :
                 Cardinality({j \in Slashes(t) : j < i}) = k - 2
SegmentEnd(t, k) ==
    IF k = SegmentCount(t) THEN Len(t)
    ELSE (CHOOSE i \in Slashes(t) :
              Cardinality({j \in Slashes(t) : j < i}) = k - 1) - 1

\* segment k of path t, the empty string when t has fewer segments
Segment(t, k) ==
    IF k > SegmentCount(t) THEN <<>>
    ELSE SubSeq(t, SegmentStart(t, k), SegmentEnd(t, k))

\* segments k and later of path t joined by "/": the rest of the path text
SegmentsFrom(t, k) ==
    IF k > SegmentCount(t) THEN <<>>
    ELSE SubSeq(t, SegmentStart(t, k), Len(t))

\* path t is the 5-segment finalize/status request on a namespace
IsNamespaceSubresource(t) ==
    /\ SegmentCount(t) = 5
    /\ Segment(t, 5) \in {<<"finalize">>, <<"status">>}

\* a namespaced path under "api"
IsNamespacedAPI(t) ==
    /\ Segment(t, 1) = <<"api">>
    /\ Segment(t, 3) = <<"namespaces">>
    /\ SegmentCount(t) >= 5
    /\ ~IsNamespaceSubresource(t)

\* a namespaced path under "apis"
IsNamespacedAPIs(t) ==
    /\ Segment(t, 1) = <<"apis">>
    /\ Segment(t, 4) = <<"namespaces">>
    /\ SegmentCount(t) >= 5

\* C9: on a namespaced path under "api" the results are namespace = segment 4,
\* resource = segment 5, name = segment 6, subresource = segments 7 and later
\* joined by "/", group empty, version = segment 2; under "apis" they are
\* group = segment 2, version = segment 3, namespace = segment 5, resource =
\* segment 6, name = segment 7, subresource = segments 8 and later joined by
\* "/"; a component whose segment is absent is empty.
C9_NamespacedPaths ==
    pc = "done" =>
        LET t == PathText(uri)
        IN  /\ IsNamespacedAPI(t) =>
                /\ parts.group = <<>>
                /\ parts.version = Segment(t, 2)
                /\ parts.ns = Segment(t, 4)
                /\ parts.resource = Segment(t, 5)
                /\ parts.name = Segment(t, 6)
                /\ parts.subresource = SegmentsFrom(t, 7)
            /\ IsNamespacedAPIs(t) =>
                /\ parts.group = Segment(t, 2)
                /\ parts.version = Segment(t, 3)
                /\ parts.ns = Segment(t, 5)
                /\ parts.resource = Segment(t, 6)
                /\ parts.name = Segment(t, 7)
                /\ parts.subresource = SegmentsFrom(t, 8)

\* C9 witness: /apis/a/v1/namespaces/a/a/a/status/a, whose subresource
\* status/a joins two segments
C9_Witness ==
    /\ pc = "done"
    /\ IsNamespacedAPIs(PathText(uri))
    /\ SegmentCount(PathText(uri)) = 9
    /\ parts.subresource = <<"status", "/", "a">>
    /\ parts.ns = <<"a">>

\* C10: under "api" with third segment "namespaces": 3 segments give resource
\* "namespaces" and empty namespace, name and subresource; 4 segments give
\* resource "namespaces" and name = namespace = segment 4; 5 segments ending
\* in finalize or status give the same with subresource = segment 5.
C10_NamespaceObjectPaths ==
    pc = "done" =>
        LET t == PathText(uri)
            n == SegmentCount(t)
        IN  (Segment(t, 1) = <<"api">> /\ Segment(t, 3) = <<"namespaces">>) =>
                /\ n = 3 =>
                      /\ parts.resource = <<"namespaces">>
                      /\ parts.ns = <<>>
                      /\ parts.name = <<>>
                      /\ parts.subresource = <<>>
                /\ n = 4 =>
                      /\ parts.resource = <<"namespaces">>
                      /\ parts.ns = Segment(t, 4)
                      /\ parts.name = Segment(t, 4)
                      /\ parts.subresource = <<>>
                /\ (n = 5 /\ IsNamespaceSubresource(t)) =>
                      /\ parts.resource = <<"namespaces">>
                      /\ parts.ns = Segment(t, 4)
                      /\ parts.name = Segment(t, 4)
                      /\ parts.subresource = Segment(t, 5)

\* C10 witness: /api/v1/namespaces/a/finalize
C10_Witness ==
    /\ pc = "done"
    /\ PathText(uri) = <<"api", "/", "v1", "/", "namespaces", "/", "a", "/", "finalize">>
    /\ parts.resource = <<"namespaces">>
    /\ parts.name = <<"a">>
    /\ parts.subresource = <<"finalize">>

\* path t is a cluster-scoped request: under "api" its third segment, under
\* "apis" its fourth, exists and is not "namespaces"
IsClusterScopedAPI(t) ==
    /\ Segment(t, 1) = <<"api">>
    /\ SegmentCount(t) >= 3
    /\ Segment(t, 3) # <<"namespaces">>
IsClusterScopedAPIs(t) ==
    /\ Segment(t, 1) = <<"apis">>
    /\ SegmentCount(t) >= 4
    /\ Segment(t, 4) # <<"namespaces">>

\* C11: on a cluster-scoped path (under "api" the third segment, under "apis"
\* the fourth, exists and is not "namespaces") the resource is that segment,
\* the name is the segment after it or empty when there is none, and the
\* namespace and the subresource are empty however many segments follow.
C11_ClusterScopedPaths ==
    pc = "done" =>
        LET t == PathText(uri)
        IN  /\ IsClusterScopedAPI(t) =>
                /\ parts.resource = Segment(t, 3)
                /\ parts.name = Segment(t, 4)
                /\ parts.ns = <<>>
                /\ parts.subresource = <<>>
            /\ IsClusterScopedAPIs(t) =>
                /\ parts.resource = Segment(t, 4)
                /\ parts.name = Segment(t, 5)
                /\ parts.ns = <<>>
                /\ parts.subresource = <<>>

\* C11 witness: a cluster-scoped path under "api" with segments after the
\* name, such as /api/v1/a/a/status/a
C11_Witness ==
    /\ pc = "done"
    /\ IsClusterScopedAPI(PathText(uri))
    /\ SegmentCount(PathText(uri)) >= 6
    /\ Segment(PathText(uri), 5) = <<"status">>
    /\ parts.resource = <<"a">>
    /\ parts.name = <<"a">>
    /\ parts.subresource = <<>>

\* C12: the empty path and every path whose root segment is neither "api"
\* nor "apis" give empty namespace, group, version, resource, name and
\* subresource; every input gives a result of these six components.
C12_OtherRootsAreEmpty ==
    pc = "done" =>
        /\ DOMAIN parts = {"ns", "group", "version", "resource", "name", "subresource"}
        /\ Segment(PathText(uri), 1) \notin {<<"api">>, <<"apis">>} =>
              \A k \in DOMAIN parts : parts[k] = <<>>

\* C12 witness: a path of seven or more segments under the root "a", of which
\* the fourth is not "namespaces" and nothing is returned
C12_Witness ==
    /\ pc = "done"
    /\ Segment(PathText(uri), 1) = <<"a">>
    /\ Segment(PathText(uri), 4) = <<"a">>
    /\ SegmentCount(PathText(uri)) >= 7
    /\ parts.resource = <<>>
    /\ parts.group = <<>>

\* the positions of the "?" of request URI u
QueryMarks(u) == {i \in 1..Len(u) : u[i] = "?"}

\* request URI u up to its first "?": the p of u = p + "?" + q
BeforeQuery(u) ==
    IF QueryMarks(u) = {} THEN u
    ELSE SubSeq(u, 1, (CHOOSE i \in QueryMarks(u) : \A j \in QueryMarks(u) : i <= j) - 1)

\* C13: for a path p without "?" and any q, the decomposition of p + "?" + q
\* is the decomposition of p.
C13_QueryIgnored ==
    (pc = "done" /\ QueryMarks(uri) # {}) => parts = URIToParts(BeforeQuery(uri))

\* C13 witness: a namespaced path followed by a query that holds a "/", whose
\* name is the last segment before the "?"
C13_Witness ==
    /\ pc = "done"
    /\ QueryMarks(uri) # {}
    /\ Len(uri) > Len(BeforeQuery(uri)) + 3
    /\ IsNamespacedAPI(PathText(uri))
    /\ SegmentCount(PathText(uri)) = 6
    /\ parts.name = <<"a">>
    /\ parts.subresource = <<>>


-----------------------------------------------------------------------------
(* The call of a filter pipeline, shared by the specifications below *)

\* AuditFilters.FilterEvents(events...), lines 24-33; decodeAuditEvents
\* (event_reader.go 42-44) runs every configured filter through it
CallFilterEvents ==
    /\ pc = "call"
    /\ ret' = AuditFiltersFilterEvents(filters, events)
    /\ pc' = "done"
    /\ UNCHANGED <<events, filters, allowedValues, currValue, accepted, uri, parts, runVars>>

NextFilter == CallFilterEvents

\* an event of which only the request URI matters
EventOfURI(id, requestURI) ==
    Event(id, <<200>>, requestURI, <<"get">>, <<"alice">>, <<"u1">>,
          "ResponseComplete", <<>>, 1, 2)

-----------------------------------------------------------------------------
(* Specification Spec: a pipeline of filters applied to a list of events *)

\* the decoded events the pipelines are run on; id is filled in by position
Event404a(id) ==
    Event(id, <<404>>,
          <<"/", "api", "/", "v1", "/", "namespaces", "/", "a", "/", "pods", "/", "x">>,
          <<"get">>, <<"alice">>, <<"u1">>, "ResponseComplete", <<>>, 1, 2)
Event200a(id) ==
    Event(id, <<200>>,
          <<"/", "api", "/", "v1", "/", "namespaces", "/", "a", "/", "pods", "/", "x",
            "/", "status">>,
          <<"update">>, <<"bob">>, <<"u2">>, "ResponseComplete", <<<<"x">>>>, 2, 5)
Event500b(id) ==
    Event(id, <<500>>,
          <<"/", "apis", "/", "apps", "/", "v1", "/", "namespaces", "/", "b", "/",
            "deployments", "/", "d", "?", "watch">>,
          <<"get">>, <<"alice">>, <<"u3">>, "ResponseStarted", <<<<"d">>>>, 3, 3)
EventNoStatus(id) ==
    Event(id, <<>>,
          <<"/", "api", "/", "v1", "/", "nodes">>,
          <<"l", "ist">>, <<"bob">>, <<"u4">>, "RequestReceived", <<<<"x">>>>, 4, 4)

EventChoices(id) ==
    {Event404a(id), Event200a(id), Event500b(id), EventNoStatus(id)}

\* the event lists of exactly n events, the k-th with id k; the records of
\* one list differ in content, as the lines of one audit log do
RECURSIVE EventLists(_)
EventLists(n) ==
    IF n = 0 THEN {<<>>}
    ELSE UNION {
             {Append(l, e) :
                 e \in {x \in EventChoices(n) :
                           \A j \in 1..(n - 1) : l[j].RequestURI # x.RequestURI}}
             : l \in EventLists(n - 1) }

\* the configured filters the pipelines are built from: every primitive,
\* the pattern filters with positive, negated and wildcard patterns, the
\* Resource filter with and without a wildcard beside an exact pair
FilterChoices ==
    {FilterByFailures,
     FilterByHTTPStatus({200, 404}),
     FilterByNamespaces({<<"a">>}),
     FilterBySubresources({<<"-", "*">>}),
     FilterByNames({<<"x">>}),
     FilterByUIDs({<<"u1">>, <<"u3">>, <<"-", "u1">>}),
     FilterByUser({<<"-", "bob">>}),
     FilterByVerbs({<<"get">>, <<"l", "*">>}),
     FilterByResources({GroupResource(Empty, <<"pods">>)}),
     FilterByResources({GroupResource(Empty, <<"pods">>),
                        GroupResource(<<"*">>, <<"*">>)}),
     FilterByStage({}),
     FilterByStage({"ResponseComplete"}),
     FilterByAfter(1),
     FilterByBefore(3),
     FilterByDuration(1)}

\* the pipelines of exactly n filters
RECURSIVE Pipelines(_)
Pipelines(n) ==
    IF n = 0 THEN {<<>>}
    ELSE {Append(l, f) : l \in Pipelines(n - 1), f \in FilterChoices}

Init ==
    /\ pc = "call"
    /\ events \in UNION {EventLists(n) : n \in 0..MaxEvents}
    /\ filters \in UNION {Pipelines(n) : n \in 0..MaxFilters}
    /\ ret = <<>>
    /\ allowedValues = {}
    /\ currValue = Empty
    /\ accepted = FALSE
    /\ uri = Empty
    /\ parts = NoParts
    /\ NoRun

Spec == Init /\ [][NextFilter]_vars

-----------------------------------------------------------------------------
(* Claims about the pipeline and the primitives *)

\* event e is among the events of list l (the same pointer)
Holds(l, e) == \E j \in 1..Len(l) : l[j].id = e.id

\* filter f accepts event e: given e alone, it returns it
Accepts(f, e) == Holds(FilterEvents(f, <<e>>), e)

\* the position in the input of the event with pointer id
InputPosition(id) == CHOOSE i \in 1..Len(events) : events[i].id = id

\* C1: the output of a pipeline F1..Fn holds an event of the input exactly
\* when every one of F1..Fn accepts that event, and holds nothing else.
C1_PipelineIsConjunction ==
    pc = "done" =>
        /\ \A i \in 1..Len(events) :
               Holds(ret, events[i])
                   <=> \A k \in 1..Len(filters) : Accepts(filters[k], events[i])
        /\ \A j \in 1..Len(ret) :
               \E i \in 1..Len(events) : ret[j] = events[i]

\* C1 witness: Failures, then Namespace {a}, on [404/a, 200/a, 500/b] yields
\* exactly [404/a]
C1_Witness ==
    /\ pc = "done"
    /\ filters = <<FilterByFailures, FilterByNamespaces({<<"a">>})>>
    /\ events = <<Event404a(1), Event200a(2), Event500b(3)>>
    /\ ret = <<Event404a(1)>>

\* C2: the output of every single filter primitive is an ordered subsequence
\* of its input: every output event is an input event, unchanged, and the
\* output events stand at strictly increasing input positions, so no event
\* occurs more often than in the input and the input order is kept.
C2_OrderedSubsequence ==
    (pc = "done" /\ Len(filters) = 1) =>
        /\ \A j \in 1..Len(ret) :
               \E i \in 1..Len(events) : ret[j] = events[i]
        /\ \A j, k \in 1..Len(ret) :
               j < k => InputPosition(ret[j].id) < InputPosition(ret[k].id)

\* C16: a pipeline of no filters returns exactly its input: the same events
\* in the same order, as many as were given.
C16_EmptyPipelineIsIdentity ==
    (pc = "done" /\ filters = <<>>) =>
        /\ Len(ret) = Len(events)
        /\ \A i \in 1..Len(events) : ret[i] = events[i]

\* C16 witness: no filter on [no status, 500/b, 404/a], returned as given
C16_Witness ==
    /\ pc = "done"
    /\ filters = <<>>
    /\ events = <<EventNoStatus(1), Event500b(2), Event404a(3)>>
    /\ ret = <<EventNoStatus(1), Event500b(2), Event404a(3)>>

-----------------------------------------------------------------------------
(* Specification SpecPatterns: the Subresource and Name filters *)

\* most patterns of a --subresource or --name flag
MaxPatterns == 2

\* the patterns of the flag: "-*" and "*", names and subresources of the
\* requests below, plain, negated and as a prefix
FlagPatterns ==
    {<<"-", "*">>, <<"*">>, <<"x">>, <<"-", "x">>, <<"d">>,
     <<"status">>, <<"-", "status">>, <<"status", "*">>}

\* the non-empty pattern sets of at most n patterns (setupFilters adds the
\* filter only for a non-empty flag)
FlagPatternSets(n) ==
    {S \in SUBSET FlagPatterns : Cardinality(S) >= 1 /\ Cardinality(S) <= n}

\* request URIs with and without a name, with no subresource, with one of one
\* segment and with one of two
PatternURIs ==
    {<<"/", "api", "/", "v1", "/", "nodes">>,
     <<"/", "api", "/", "v1", "/", "namespaces", "/", "a", "/", "pods", "/", "x">>,
     <<"/", "api", "/", "v1", "/", "namespaces", "/", "a", "/", "pods", "/", "x", "/", "status">>,
     <<"/", "api", "/", "v1", "/", "namespaces", "/", "a", "/", "pods", "/", "d", "/", "status", "/", "x">>,
     <<"/", "apis", "/", "apps", "/", "v1", "/", "namespaces", "/", "b", "/", "deployments", "/", "d", "?", "watch">>}

\* event.ObjectRef: nil, or a reference with an empty or a non-empty name
PatternObjectRefs == {<<>>, <<Empty>>, <<<<"x">>>>, <<<<"d">>>>}

\* the decoded events the two filters are given
PatternEvents(id) ==
    {Event(id, <<200>>, u, <<"get">>, <<"alice">>, <<"u1">>, "ResponseComplete", r, 1, 2) :
        u \in PatternURIs, r \in PatternObjectRefs}

InitPatterns ==
    /\ pc = "call"
    /\ events \in {<<e>> : e \in PatternEvents(1)}
                  \cup {<<e, g>> : e \in PatternEvents(1), g \in PatternEvents(2)}
    /\ filters \in {<<FilterBySubresources(S)>> : S \in FlagPatternSets(MaxPatterns)}
                   \cup {<<FilterByNames(S)>> : S \in FlagPatternSets(MaxPatterns)}
    /\ ret = <<>>
    /\ allowedValues = {}
    /\ currValue = Empty
    /\ accepted = FALSE
    /\ uri = Empty
    /\ parts = NoParts
    /\ NoRun

SpecPatterns == InitPatterns /\ [][NextFilter]_vars

\* how often the event with pointer id stands in list l
Occurrences(l, id) == Cardinality({j \in 1..Len(l) : l[j].id = id})

\* C19: a Subresource filter whose set is exactly {"-*"} keeps exactly the
\* events whose subresource is empty; with any other set it keeps exactly the
\* events whose subresource AcceptString accepts.
C19_LoneDashStarMeansNoSubresource ==
    (pc = "done" /\ filters[1].kind = "Subresources") =>
        \A i \in 1..Len(events) :
            LET subresource == URIToParts(events[i].RequestURI).subresource
            IN  Holds(ret, events[i]) <=>
                    IF filters[1].strings = {<<"-", "*">>}
                    THEN subresource = <<>>
                    ELSE AcceptString(filters[1].strings, subresource)

\* C19 witness: {"-*"} on [pods/x/status, pods/x] keeps pods/x alone
C19_Witness ==
    /\ pc = "done"
    /\ filters = <<FilterBySubresources({<<"-", "*">>})>>
    /\ Len(events) = 2
    /\ URIToParts(events[1].RequestURI).subresource = <<"status">>
    /\ URIToParts(events[2].RequestURI).subresource = <<>>
    /\ ret = <<events[2]>>

\* C20: a Name filter keeps an event exactly when AcceptString accepts the
\* name of its URI, or the event has an object reference and AcceptString
\* accepts the name of that; an event without one is judged on the name of
\* its URI alone; a kept event is returned once.
C20_NameOrObjectRefName ==
    (pc = "done" /\ filters[1].kind = "Names") =>
        \A i \in 1..Len(events) :
            LET e == events[i]
                byURI == AcceptString(filters[1].strings, URIToParts(e.RequestURI).name)
                byRef == /\ e.ObjectRef # <<>>
                         /\ AcceptString(filters[1].strings, e.ObjectRef[1])
            IN  /\ Holds(ret, e) <=> (byURI \/ byRef)
                /\ Occurrences(ret, e.id) <= 1

\* C20 witness: {"x"} on [pods/d/status/x with reference x, pods/d/status/x
\* with no reference] keeps the first, by its reference, and not the second
C20_Witness ==
    /\ pc = "done"
    /\ filters = <<FilterByNames({<<"x">>})>>
    /\ Len(events) = 2
    /\ URIToParts(events[1].RequestURI).name = <<"d">>
    /\ events[1].ObjectRef = <<<<"x">>>>
    /\ URIToParts(events[2].RequestURI).name = <<"d">>
    /\ events[2].ObjectRef = <<>>
    /\ ret = <<events[1]>>

-----------------------------------------------------------------------------
(* Specification SpecResources: the Resource filter on one event *)

\* most specifiers of a --resource flag
MaxSpecifiers == 3

\* the groups and resources a specifier may name
SpecifierGroups == {<<"*">>, Empty, <<"apps">>}
SpecifierResources ==
    {<<"*">>, <<"-", "*">>, <<"pods">>, <<"-", "pods">>, <<"jobs">>}

Specifiers ==
    {GroupResource(g, r) : g \in SpecifierGroups, r \in SpecifierResources}

\* the sets of at most n specifiers (setupFilters, part_001 lines 211-223)
RECURSIVE SpecifierSets(_)
SpecifierSets(n) ==
    IF n = 0 THEN {{}}
    ELSE LET smaller == SpecifierSets(n - 1)
         IN  smaller \cup {T \cup {x} : T \in smaller, x \in Specifiers}

\* request paths of every group and resource the specifiers name, cluster
\* scoped and namespaced, and a path with no resource at all
ResourceURIs ==
    {<<"/", "api", "/", "v1">>}
    \cup {<<"/", "api", "/", "v1", "/">> \o r : r \in SpecifierResources}
    \cup {<<"/", "api", "/", "v1", "/", "namespaces", "/", "a", "/">> \o r
              : r \in SpecifierResources}
    \cup {<<"/", "apis", "/">> \o g \o <<"/", "v1", "/">> \o r
              : g \in SpecifierGroups \ {Empty}, r \in SpecifierResources}

InitResources ==
    /\ pc = "call"
    /\ \E u \in ResourceURIs : events = <<EventOfURI(1, u)>>
    /\ \E R \in SpecifierSets(MaxSpecifiers) : filters = <<FilterByResources(R)>>
    /\ ret = <<>>
    /\ allowedValues = {}
    /\ currValue = Empty
    /\ accepted = FALSE
    /\ uri = Empty
    /\ parts = NoParts
    /\ NoRun

SpecResources == InitResources /\ [][NextFilter]_vars

-----------------------------------------------------------------------------
(* Claims about the Resource filter *)

\* the group and the resource decomposed from the one event of SpecResources
EventGroup == URIToParts(events[1].RequestURI).group
EventResource == URIToParts(events[1].RequestURI).resource

\* the specifier set of the one filter of SpecResources
Listed == filters[1].resources

\* the event is in the output
InOutput == \E j \in 1..Len(ret) : ret[j].id = events[1].id

\* a wildcard negative specifier applies to the event: ("*", "-"+r) or (g, "-*")
WildcardNegativeApplies ==
    \/ [Group |-> <<"*">>, Resource |-> <<"-">> \o EventResource] \in Listed
    \/ [Group |-> EventGroup, Resource |-> <<"-", "*">>] \in Listed

\* the exact anti-specifier (g, "-"+r) is listed
ExactNegativeApplies ==
    [Group |-> EventGroup, Resource |-> <<"-">> \o EventResource] \in Listed

\* a positive specifier names the event: (g, r), ("*", "*"), ("*", r) or (g, "*")
PositiveApplies ==
    \/ [Group |-> EventGroup, Resource |-> EventResource] \in Listed
    \/ [Group |-> <<"*">>, Resource |-> <<"*">>] \in Listed
    \/ [Group |-> <<"*">>, Resource |-> EventResource] \in Listed
    \/ [Group |-> EventGroup, Resource |-> <<"*">>] \in Listed

\* every listed specifier is negative: its resource starts with "-"
OnlyNegativeListed ==
    \A x \in Listed : x.Resource # <<>> /\ Head(x.Resource) = "-"

\* C6: a negative specifier always wins: when the set holds ("*", "-"+r) or
\* (g, "-*") the event is not in the output, even when (g, r) is listed too.
C6_NegativeAlwaysWins ==
    (pc = "done" /\ WildcardNegativeApplies) => ~InOutput

\* C7: when the set lists the exact anti-specifier (g, "-"+r) the event is
\* rejected whatever else is listed; {(*, pods), (apps, -pods)} rejects
\* apps/pods and accepts pods of every other group.
C7_ExactAntiMatchRejects ==
    pc = "done" =>
        /\ ExactNegativeApplies => ret = <<>>
        /\ ( /\ Listed = {[Group |-> <<"*">>, Resource |-> <<"pods">>],
                          [Group |-> <<"apps">>, Resource |-> <<"-", "pods">>]}
             /\ EventResource = <<"pods">>
             /\ EventGroup # <<"apps">> ) => InOutput

\* C7 witness: apps/pods rejected by (apps, -pods) although (*, pods) and
\* (apps, pods) name it
C7_Witness ==
    /\ pc = "done"
    /\ EventGroup = <<"apps">> /\ EventResource = <<"pods">>
    /\ Listed = {[Group |-> <<"*">>, Resource |-> <<"pods">>],
                 [Group |-> <<"apps">>, Resource |-> <<"pods">>],
                 [Group |-> <<"apps">>, Resource |-> <<"-", "pods">>]}
    /\ ret = <<>>

\* C8 as stated: with no negative specifier applying, the event is accepted
\* if and only if (g, r), ("*", "*"), ("*", r) or (g, "*") is listed; an empty
\* set, or a set of negative specifiers only, accepts no event.
C8_AcceptIffPositive ==
    pc = "done" =>
        /\ (~ExactNegativeApplies /\ ~WildcardNegativeApplies)
               => (InOutput <=> PositiveApplies)
        /\ (Listed = {} \/ OnlyNegativeListed) => ~InOutput

\* C8 as amended: the same, but a set of negative specifiers only is said to
\* accept no event whose own resource does not start with "-".
C8_AcceptIffPositive_Amended ==
    pc = "done" =>
        /\ (~ExactNegativeApplies /\ ~WildcardNegativeApplies)
               => (InOutput <=> PositiveApplies)
        /\ Listed = {} => ~InOutput
        /\ ( /\ OnlyNegativeListed
             /\ ~(EventResource # <<>> /\ Head(EventResource) = "-") )
               => ~InOutput

\* C8 witness: apps/pods accepted through (apps, *) alone, beside a negative
\* specifier that does not apply to it
C8_Witness ==
    /\ pc = "done"
    /\ EventGroup = <<"apps">> /\ EventResource = <<"pods">>
    /\ Listed = {[Group |-> <<"apps">>, Resource |-> <<"*">>],
                 [Group |-> Empty, Resource |-> <<"-", "pods">>]}
    /\ InOutput

-----------------------------------------------------------------------------
(* The loops over a set, element by element in the order the map hands the
   elements out, and specification SpecOrder: AcceptString and the Resource
   filter under every such order *)

\* most elements of a set the loops range over
MaxRangeLen == 3

\* the orders in which a range over the finite set S may hand out its
\* elements: Go leaves the iteration order of a map unspecified
Orders(S) ==
    {o \in [1..Cardinality(S) -> S] :
        \A i, j \in 1..Cardinality(S) : o[i] = o[j] => i = j}

\* a slip in lines 435-437: an element that is not a negated wildcard ends
\* the loop (break for continue)
RECURSIVE NegatedWildcardLoop_BreakOnOther(_, _)
NegatedWildcardLoop_BreakOnOther(list, value) ==
    IF list = <<>> THEN FALSE
    ELSE IF ~HasSuffix(Head(list), <<"*">>) \/ ~HasPrefix(Head(list), <<"-">>)
        THEN FALSE
    ELSE IF HasPrefix(Neg(value), DropLast(Head(list)))
        THEN TRUE
    ELSE NegatedWildcardLoop_BreakOnOther(Tail(list), value)

\* lines 434-441 over list: TRUE when the loop returns false from
\* AcceptString, FALSE when it runs to its end
RECURSIVE NegatedWildcardLoop(_, _)
NegatedWildcardLoop(list, value) ==
    IF list = <<>> THEN FALSE
    ELSE IF ~HasSuffix(Head(list), <<"*">>) \/ ~HasPrefix(Head(list), <<"-">>)
        THEN NegatedWildcardLoop(Tail(list), value)                  \* 435-437
    ELSE IF HasPrefix(Neg(value), DropLast(Head(list)))
        THEN TRUE                                                    \* 438-440
    ELSE NegatedWildcardLoop(Tail(list), value)

\* lines 444-450 over list: the value of allValuesNegative after the loop
RECURSIVE AllValuesNegativeLoop(_)
AllValuesNegativeLoop(list) ==
    IF list = <<>> THEN TRUE                                         \* 444
    ELSE IF ~HasPrefix(Head(list), <<"-">>) THEN FALSE               \* 446-449
    ELSE AllValuesNegativeLoop(Tail(list))

\* lines 458-465 over list: TRUE when the loop returns true from AcceptString
RECURSIVE PositiveWildcardLoop(_, _)
PositiveWildcardLoop(list, value) ==
    IF list = <<>> THEN FALSE
    ELSE IF ~HasSuffix(Head(list), <<"*">>) \/ HasPrefix(Head(list), <<"-">>)
        THEN PositiveWildcardLoop(Tail(list), value)                 \* 459-461
    ELSE IF HasPrefix(value, DropLast(Head(list)))
        THEN TRUE                                                    \* 462-464
    ELSE PositiveWildcardLoop(Tail(list), value)

\* AcceptString, lines 429-468, when the three calls of UnsortedList return
\* the lists first, second and third
AcceptStringInOrder(allowed, value, first, second, third) ==
    IF Neg(value) \in allowed THEN FALSE                     \* 431-433
    ELSE IF NegatedWildcardLoop(first, value) THEN FALSE     \* 434-441
    ELSE IF AllValuesNegativeLoop(second) THEN TRUE          \* 443-453
    ELSE IF value \in allowed THEN TRUE                      \* 455-457
    ELSE IF PositiveWildcardLoop(third, value) THEN TRUE     \* 458-465
    ELSE FALSE                                               \* 467

\* lines 213-222 over list: the value of antiMatched after the loop
RECURSIVE AntiMatchLoop(_, _, _)
AntiMatchLoop(list, group, resource) ==
    IF list = <<>> THEN FALSE
    ELSE IF Head(list).Group = <<"*">> /\ Head(list).Resource = Neg(resource)
        THEN TRUE                                                    \* 214-217
    ELSE IF Head(list).Resource = <<"-", "*">> /\ Head(list).Group = group
        THEN TRUE                                                    \* 218-221
    ELSE AntiMatchLoop(Tail(list), group, resource)

\* a slip in lines 228-239: the breaks are missing, so the accept loop appends
\* the event for every element that matches
RECURSIVE AcceptLoop_NoBreak(_, _, _)
AcceptLoop_NoBreak(list, group, resource) ==
    IF list = <<>> THEN 0
    ELSE IF \/ Head(list).Group = <<"*">> /\ Head(list).Resource = <<"*">>
            \/ Head(list).Group = <<"*">> /\ Head(list).Resource = resource
            \/ Head(list).Resource = <<"*">> /\ Head(list).Group = group
        THEN 1 + AcceptLoop_NoBreak(Tail(list), group, resource)
    ELSE AcceptLoop_NoBreak(Tail(list), group, resource)

\* lines 227-240 over list: how often the loop appends the event
RECURSIVE AcceptLoop(_, _, _)
AcceptLoop(list, group, resource) ==
    IF list = <<>> THEN 0
    ELSE IF Head(list).Group = <<"*">> /\ Head(list).Resource = <<"*">>
        THEN 1                                                       \* 228-231
    ELSE IF Head(list).Group = <<"*">> /\ Head(list).Resource = resource
        THEN 1                                                       \* 232-235
    ELSE IF Head(list).Resource = <<"*">> /\ Head(list).Group = group
        THEN 1                                                       \* 236-239
    ELSE AcceptLoop(Tail(list), group, resource)

\* lines 198-240 for event e when the two ranges over f.Resources run in the
\* orders first and second: what the iteration appends to ret
ResourcesAppendedInOrder(Resources, e, first, second) ==
    LET gvr == URIToParts(e.RequestURI)                                \* 199
        antiMatch == GroupResource(gvr.group, Neg(gvr.resource))       \* 200
        exact == IF GroupResource(gvr.group, gvr.resource) \in Resources
                 THEN <<e>> ELSE <<>>                                  \* 206-208
    IN  IF antiMatch \in Resources THEN <<>>                           \* 203-205
        ELSE IF AntiMatchLoop(first, gvr.group, gvr.resource)
            THEN exact                                                 \* 212-225
        ELSE exact \o [k \in 1..AcceptLoop(second, gvr.group, gvr.resource) |-> e]

\* the patterns of a flag: a literal, wildcards with and without a prefix,
\* and the negation of each
RangePatterns ==
    {<<"a">>, <<"-", "a">>, <<"a", "*">>, <<"-", "a", "*">>,
     <<"b", "*">>, <<"-", "b", "*">>, <<"*">>, <<"-", "*">>}

\* the values AcceptString is asked about
RangeValues == {<<"a">>, <<"b">>, <<"a", "b">>}

\* the specifiers of a --resource flag: exact, wildcard and negated pairs
RangeSpecifiers ==
    {GroupResource(Empty, <<"pods">>),
     GroupResource(<<"*">>, <<"*">>),
     GroupResource(<<"*">>, <<"pods">>),
     GroupResource(Empty, <<"*">>),
     GroupResource(<<"apps">>, <<"*">>),
     GroupResource(<<"*">>, <<"-", "pods">>),
     GroupResource(<<"apps">>, <<"-", "*">>)}

\* the request URIs of the events the Resource filter is given
RangeURIs ==
    {<<"/", "api", "/", "v1", "/", "pods">>,
     <<"/", "apis", "/", "apps", "/", "v1", "/", "pods">>,
     <<"/", "api", "/", "v1", "/", "jobs">>}

\* the subsets of S of at most n elements
SetsUpTo(S, n) == {T \in SUBSET S : Cardinality(T) <= n}

InitOrder ==
    /\ uri = Empty
    /\ parts = NoParts
    /\ NoRun
    /\ \/ /\ pc = "accept"
          /\ allowedValues \in SetsUpTo(RangePatterns, MaxRangeLen)
          /\ currValue \in RangeValues
          /\ accepted = FALSE
          /\ events = <<>>
          /\ filters = <<>>
          /\ ret = <<>>
       \/ /\ pc = "filter"
          /\ events \in {<<EventOfURI(1, u)>> : u \in RangeURIs}
          /\ filters \in {<<FilterByResources(S)>> :
                             S \in SetsUpTo(RangeSpecifiers, MaxRangeLen)}
          /\ ret = <<>>
          /\ allowedValues = {}
          /\ currValue = Empty
          /\ accepted = FALSE

\* AcceptString(allowedValues, currValue): each UnsortedList returns the
\* elements in an order of its own
CallAcceptStringInOrder ==
    /\ pc = "accept"
    /\ \E first, second, third \in Orders(allowedValues) :
           accepted' = AcceptStringInOrder(allowedValues, currValue,
                                           first, second, third)
    /\ pc' = "accepted"
    /\ UNCHANGED <<allowedValues, currValue, uri, parts, events, filters, ret, runVars>>

\* FilterByResources.FilterEvents on one event: each range over f.Resources
\* runs in an order of its own
CallResourcesInOrder ==
    /\ pc = "filter"
    /\ \E first, second \in Orders(filters[1].resources) :
           ret' = ResourcesAppendedInOrder(filters[1].resources, events[1],
                                           first, second)
    /\ pc' = "filtered"
    /\ UNCHANGED <<events, filters, allowedValues, currValue, accepted, uri, parts, runVars>>

NextOrder == CallAcceptStringInOrder \/ CallResourcesInOrder

SpecOrder == InitOrder /\ [][NextOrder]_vars

\* C17: what AcceptString returns and what the Resource filter returns do not
\* depend on the order in which the set is iterated: every order of every
\* loop gives the result that was returned, which is the one determined by
\* the contents of the set.
C17_IterationOrderIrrelevant ==
    /\ pc = "accepted" =>
          /\ \A first, second, third \in Orders(allowedValues) :
                 AcceptStringInOrder(allowedValues, currValue,
                                     first, second, third) = accepted
          /\ accepted = AcceptString(allowedValues, currValue)
    /\ pc = "filtered" =>
          /\ \A first, second \in Orders(filters[1].resources) :
                 ResourcesAppendedInOrder(filters[1].resources, events[1],
                                          first, second) = ret
          /\ ret = ResourcesFilterEvents(filters[1], events)

\* C17 witness: {"-b*", "a*", "*"} accepts "ab" by either of two wildcards,
\* after a negated wildcard that does not apply
C17_Witness ==
    /\ pc = "accepted"
    /\ allowedValues = {<<"-", "b", "*">>, <<"a", "*">>, <<"*">>}
    /\ currValue = <<"a", "b">>
    /\ accepted = TRUE

-----------------------------------------------------------------------------
(* The query command: Options.Run (part_001), decodeAuditEvents
   (event_reader.go) and the printers, and specification SpecRun *)

\* most audit files of the directory
MaxFiles == 2

\* time.Now(), part_001 lines 147 and 151, in the time unit of the model: later
\* than every timestamp of an event or of a file
Now == 8

\* the default age of --from, 365 * 24 * time.Hour of line 147, in the time
\* unit of the model
Year == 8

\* the elements of a slice, as sets.NewString(slice...) collects them
ToSet(list) == {list[i] : i \in DOMAIN list}

\* the clock texts of a timestamp string; the k-th one spells time k
Clocks ==
    <<"00:00:01", "00:00:02", "00:00:03", "00:00:04", "00:00:05", "00:00:06">>

\* time k written in timeDefaultFormat "2006-01-02 15:04:05", line 110
TimeText(k) == <<"2021-01-01", " ", Clocks[k]>>

\* time.Parse(timeDefaultFormat, s): a date, one space, a clock, nothing else
ParseTime(s) ==
    IF /\ Len(s) = 3
       /\ s[1] = "2021-01-01"
       /\ s[2] = " "
       /\ \E k \in DOMAIN Clocks : Clocks[k] = s[3]
    THEN [ok |-> TRUE, time |-> CHOOSE k \in DOMAIN Clocks : Clocks[k] = s[3]]
    ELSE [ok |-> FALSE, time |-> 0]

\* time.ParseDuration(s): a number followed by a unit
ParseDuration(s) ==
    IF Len(s) = 2 /\ s[1] \in {"1", "2"} /\ s[2] = "s"
    THEN [ok |-> TRUE, duration |-> IF s[1] = "1" THEN 1 ELSE 2]
    ELSE [ok |-> FALSE, duration |-> 0]

\* lines 213-220: a --resource value "resource.group" as a GroupResource
ResourceOfFlag(resource) ==
    LET p == Split(resource, ".")
    IN  GroupResource(IF Len(p) >= 2 THEN Join(Tail(p), ".") ELSE Empty, p[1])

\* what setupFilters returns: the error, or the filters
FiltersOrError(error, fs) == [err |-> error, filters |-> fs]

\* a slip in lines 204-210: a --from that does not parse is passed over
\* instead of being returned as an error
SetupFilters_UncheckedFrom(o) ==
    LET to == ParseTime(o.to)
        from == ParseTime(o.from)
        d == ParseDuration(o.duration)
    IN  IF Len(o.to) > 0 /\ ~to.ok THEN FiltersOrError("setupFilters", <<>>)
        ELSE IF Len(o.duration) > 0 /\ ~d.ok
            THEN FiltersOrError("setupFilters", <<>>)
        ELSE FiltersOrError("none",
            (IF Len(o.uids) > 0 THEN <<FilterByUIDs(ToSet(o.uids))>> ELSE <<>>)
         \o (IF Len(o.names) > 0 THEN <<FilterByNames(ToSet(o.names))>> ELSE <<>>)
         \o (IF Len(o.namespaces) > 0
                THEN <<FilterByNamespaces(ToSet(o.namespaces))>> ELSE <<>>)
         \o (IF Len(o.stages) > 0 THEN <<FilterByStage(ToSet(o.stages))>> ELSE <<>>)
         \o (IF Len(o.to) > 0 THEN <<FilterByBefore(to.time)>> ELSE <<>>)
         \o (IF Len(o.from) > 0 /\ from.ok THEN <<FilterByAfter(from.time)>> ELSE <<>>)
         \o (IF Len(o.resources) > 0
                THEN <<FilterByResources({ResourceOfFlag(o.resources[i]) :
                                              i \in DOMAIN o.resources})>>
                ELSE <<>>)
         \o (IF Len(o.subresources) > 0
                THEN <<FilterBySubresources(ToSet(o.subresources))>> ELSE <<>>)
         \o (IF Len(o.users) > 0 THEN <<FilterByUser(ToSet(o.users))>> ELSE <<>>)
         \o (IF Len(o.verbs) > 0 THEN <<FilterByVerbs(ToSet(o.verbs))>> ELSE <<>>)
         \o (IF Len(o.httpStatusCodes) > 0
                THEN <<FilterByHTTPStatus(ToSet(o.httpStatusCodes))>> ELSE <<>>)
         \o (IF o.failedOnly THEN <<FilterByFailures>> ELSE <<>>)
         \o (IF Len(o.duration) > 0 THEN <<FilterByDuration(d.duration)>> ELSE <<>>))

\* Options.setupFilters, lines 183-249: the filters of the flags that are set,
\* in the order of the code, or the first error of time.Parse (--to, then
\* --from) or time.ParseDuration (--duration)
SetupFilters(o) ==
    LET to == ParseTime(o.to)                                        \* 197
        from == ParseTime(o.from)                                    \* 204
        d == ParseDuration(o.duration)                               \* 241
    IN  IF Len(o.to) > 0 /\ ~to.ok THEN FiltersOrError("setupFilters", <<>>)  \* 198-200
        ELSE IF Len(o.from) > 0 /\ ~from.ok
            THEN FiltersOrError("setupFilters", <<>>)                \* 205-207
        ELSE IF Len(o.duration) > 0 /\ ~d.ok
            THEN FiltersOrError("setupFilters", <<>>)                \* 242-244
        ELSE FiltersOrError("none",
            (IF Len(o.uids) > 0 THEN <<FilterByUIDs(ToSet(o.uids))>> ELSE <<>>)
         \o (IF Len(o.names) > 0 THEN <<FilterByNames(ToSet(o.names))>> ELSE <<>>)
         \o (IF Len(o.namespaces) > 0
                THEN <<FilterByNamespaces(ToSet(o.namespaces))>> ELSE <<>>)
         \o (IF Len(o.stages) > 0 THEN <<FilterByStage(ToSet(o.stages))>> ELSE <<>>)
         \o (IF Len(o.to) > 0 THEN <<FilterByBefore(to.time)>> ELSE <<>>)
         \o (IF Len(o.from) > 0 THEN <<FilterByAfter(from.time)>> ELSE <<>>)
         \o (IF Len(o.resources) > 0
                THEN <<FilterByResources({ResourceOfFlag(o.resources[i]) :
                                              i \in DOMAIN o.resources})>>
                ELSE <<>>)
         \o (IF Len(o.subresources) > 0
                THEN <<FilterBySubresources(ToSet(o.subresources))>> ELSE <<>>)
         \o (IF Len(o.users) > 0 THEN <<FilterByUser(ToSet(o.users))>> ELSE <<>>)
         \o (IF Len(o.verbs) > 0 THEN <<FilterByVerbs(ToSet(o.verbs))>> ELSE <<>>)
         \o (IF Len(o.httpStatusCodes) > 0
                THEN <<FilterByHTTPStatus(ToSet(o.httpStatusCodes))>> ELSE <<>>)
         \o (IF o.failedOnly THEN <<FilterByFailures>> ELSE <<>>)
         \o (IF Len(o.duration) > 0 THEN <<FilterByDuration(d.duration)>> ELSE <<>>))

\* isInTimeRange, lines 145-156.  parseTime (112-118) ends the process with
\* log.Fatal when the string does not parse: fatal is TRUE then.
IsInTimeRange(from, to, timestamp) ==
    LET fromTime == IF Len(from) # 0 THEN ParseTime(from).time ELSE Now - Year
        toTime == IF Len(to) # 0 THEN ParseTime(to).time ELSE Now
    IN  [fatal |-> \/ Len(from) # 0 /\ ~ParseTime(from).ok
                   \/ Len(to) # 0 /\ ~ParseTime(to).ok,
         in |-> timestamp > fromTime /\ timestamp < toTime]

\* a line of an audit file: what jsoniter.Unmarshal leaves in the event it is
\* given, and whether it returns an error
Line(failed, event) == [failed |-> failed, event |-> event]

\* auditv1.Event{}, line 34: the event before anything is decoded into it
ZeroEvent == Event(0, <<>>, Empty, Empty, Empty, Empty, "", <<>>, 0, 0)

\* an audit file of the directory: the node of its name, its timestamp (from
\* its name or its modification time), whether it is a gzip stream, its lines
AuditFile(node, timestamp, gzip, lines) ==
    [node |-> node, timestamp |-> timestamp, gzip |-> gzip, lines |-> lines]

\* the pointer of the event of line k of the i-th file
EventID(i, k) == 10 * i + k

\* event_reader.go lines 31-40: the events after the scan of the lines.  The
\* error of Unmarshal is logged and the event is appended all the same.
DecodedEvents(lines, i) ==
    [k \in 1..Len(lines) |-> [lines[k].event EXCEPT !.id = EventID(i, k)]]

\* event_reader.go line 46, the less function given to sort.Slice: both
\* operands are events[i]
Less(evs, i, j) ==
    evs[i].RequestReceivedTimestamp > evs[i].RequestReceivedTimestamp

\* list evs with the elements at i and j exchanged
Swap(evs, i, j) == [evs EXCEPT ![i] = evs[j], ![j] = evs[i]]

\* sort.Slice on a slice of fewer than 12 elements is an insertion sort: the
\* element at j moves down while it is less than the one before it
RECURSIVE SinkDown(_, _)
SinkDown(evs, j) ==
    IF j > 1 /\ Less(evs, j, j - 1) THEN SinkDown(Swap(evs, j, j - 1), j - 1)
    ELSE evs

RECURSIVE InsertionSortFrom(_, _)
InsertionSortFrom(evs, i) ==
    IF i > Len(evs) THEN evs
    ELSE InsertionSortFrom(SinkDown(evs, i), i + 1)

\* event_reader.go lines 45-47
SortSlice(evs) == InsertionSortFrom(evs, 2)

\* Run line 270 with printEvent, event_printer.go lines 49-51: the time, the
\* code and the URI without its query, of an event with a response status
DefaultLine(e) ==
    [id |-> e.id, time |-> e.RequestReceivedTimestamp,
     code |-> e.ResponseStatus[1], uri |-> Split(e.RequestURI, "?")[1]]

\* PrintOpenMetrics, openmetrics_printer.go lines 12-19: code 0 without status
OpenMetricsLine(e) ==
    [id |-> e.id, user |-> e.Username, verb |-> e.Verb,
     code |-> IF e.ResponseStatus # <<>> THEN e.ResponseStatus[1] ELSE 0]

\* Run lines 266-269: the events the default loop reaches; the loop breaks
\* when the index i, counted from 0, is greater than a positive limit
Reached(evs, limit) ==
    IF limit > 0 /\ Len(evs) > limit + 1 THEN SubSeq(evs, 1, limit + 1) ELSE evs

\* the node names of the model, in the order of sets.String.List()
NodeNames == <<"n1", "n2">>
NodeRank(n) == CHOOSE k \in DOMAIN NodeNames : NodeNames[k] = n

\* the contents an audit file may have: two events, the older first; a line
\* that is no JSON, an event, and a line cut off after its verb; an event of
\* stage RequestReceived, which has no response status
FileContents ==
    {<<Line(FALSE, Event404a(0)), Line(FALSE, Event500b(0))>>,
     <<Line(TRUE, ZeroEvent), Line(FALSE, Event200a(0)),
       Line(TRUE, [ZeroEvent EXCEPT !.Verb = <<"get">>])>>,
     <<Line(FALSE, EventNoStatus(0))>>}

\* the audit files a directory may hold
FileChoices ==
    {AuditFile(n, t, TRUE, l) : n \in ToSet(NodeNames), t \in {3, 5}, l \in FileContents}
        \cup {AuditFile("n2", 3, FALSE, <<>>)}

\* file f is visited before file g, or may be: multiNodeEventDecoder takes the
\* nodes in the order of their names (line 162) and the files of a node in the
\* order NewAuditDirReader sorted them in, newest first (part_002 51-53)
VisitedBefore(f, g) ==
    \/ NodeRank(f.node) < NodeRank(g.node)
    \/ f.node = g.node /\ f.timestamp >= g.timestamp

\* the lists of exactly n audit files, in the order they are visited
RECURSIVE FileLists(_)
FileLists(n) ==
    IF n = 0 THEN {<<>>}
    ELSE UNION { {Append(l, f) :
                     f \in {g \in FileChoices :
                               n = 1 \/ VisitedBefore(l[n - 1], g)}}
                 : l \in FileLists(n - 1) }

\* the flags of the command: --stats; --from, --to and --duration absent,
\* valid and invalid; and four settings of --failed-only, --nodes, --output
\* and --limit
RunOptions ==
    {[ZeroOptions EXCEPT !.stats = st, !.from = f, !.to = t, !.duration = d,
                         !.failedOnly = x[1], !.nodes = x[2],
                         !.output = x[3], !.limit = x[4]] :
        st \in BOOLEAN,
        f \in {Empty, TimeText(2), <<"2021-01-01", "T", "00:00:02">>},
        t \in {Empty, TimeText(4), <<"2021-01-01">>},
        d \in {Empty, <<"1", "s">>, <<"1">>},
        x \in {<<FALSE, <<>>, Empty, 0>>,
               <<TRUE, <<>>, Empty, 0>>,
               <<FALSE, <<"n1">>, <<"default">>, 1>>,
               <<FALSE, <<>>, <<"openmetrics">>, 0>>}}

\* the state when Run is called: Validate and Complete (lines 86-108) have
\* found the directory and every node of --nodes in it
InitRun ==
    /\ pc = "run"
    /\ options \in RunOptions
    /\ files \in UNION {FileLists(n) : n \in 0..MaxFiles}
    /\ ToSet(options.nodes) \subseteq {files[i].node : i \in DOMAIN files}
    /\ fileIndex = 0
    /\ opened = <<>>
    /\ err = "none"
    /\ printed = <<>>
    /\ events = <<>>
    /\ filters = <<>>
    /\ ret = <<>>
    /\ allowedValues = {}
    /\ currValue = Empty
    /\ accepted = FALSE
    /\ uri = Empty
    /\ parts = NoParts

\* Run lines 251-259: the stats display, or the filters and the first error
RunSetup ==
    /\ pc = "run"
    /\ IF options.stats
       THEN /\ pc' = "done"                                          \* 252-254
            /\ UNCHANGED <<filters, err, fileIndex>>
       ELSE LET built == SetupFilters(options)                       \* 256
            IN  IF built.err # "none"
                THEN /\ err' = built.err                             \* 257-259
                     /\ pc' = "done"
                     /\ UNCHANGED <<filters, fileIndex>>
                ELSE /\ filters' = built.filters
                     /\ fileIndex' = 1
                     /\ pc' = "decode"
                     /\ err' = err
    /\ UNCHANGED <<options, files, opened, printed, events, ret,
                   allowedValues, currValue, accepted, uri, parts>>

\* multiNodeEventDecoder lines 162-177, one file of the loops, with
\* decodeAuditEvents (event_reader.go 16-50) when the file is read
DecodeFile ==
    /\ pc = "decode"
    /\ fileIndex <= Len(files)
    /\ LET f == files[fileIndex]
           requestNodes == ToSet(options.nodes)
           range == IsInTimeRange(options.from, options.to, f.timestamp)
           decoded == DecodedEvents(f.lines, fileIndex)
       IN  IF requestNodes # {} /\ f.node \notin requestNodes
           THEN /\ fileIndex' = fileIndex + 1                        \* 163-165
                /\ UNCHANGED <<pc, err, opened, events, ret>>
           ELSE IF range.fatal
           THEN /\ err' = "fatal"                                    \* 112-118
                /\ pc' = "done"
                /\ UNCHANGED <<fileIndex, opened, events, ret>>
           ELSE IF ~range.in
           THEN /\ fileIndex' = fileIndex + 1                        \* 167-169
                /\ UNCHANGED <<pc, err, opened, events, ret>>
           ELSE IF ~f.gzip
           THEN /\ opened' = Append(opened, fileIndex)               \* 17, 23-26
                /\ err' = "decodeAuditEvents"                        \* 172-174
                /\ ret' = <<>>
                /\ pc' = "done"
                /\ UNCHANGED <<fileIndex, events>>
           ELSE /\ opened' = Append(opened, fileIndex)
                /\ events' = decoded                                 \* 31-40
                /\ ret' = ret \o SortSlice(AuditFiltersFilterEvents(filters, decoded))
                /\ fileIndex' = fileIndex + 1
                /\ UNCHANGED <<pc, err>>
    /\ UNCHANGED <<options, files, filters, printed,
                   allowedValues, currValue, accepted, uri, parts>>

\* Run lines 266-277: the events are written out.  printEvent reads
\* e.ResponseStatus.Code: on an event without a response status the process
\* ends in a nil-pointer panic, after the lines before it.
PrintEvents ==
    /\ pc = "decode"
    /\ fileIndex > Len(files)
    /\ IF options.output = <<"openmetrics">>
       THEN /\ printed' = [k \in 1..Len(ret) |-> OpenMetricsLine(ret[k])]
            /\ err' = err
       ELSE LET reached == Reached(ret, options.limit)
                faults == {k \in 1..Len(reached) : reached[k].ResponseStatus = <<>>}
                stop == IF faults = {} THEN Len(reached)
                        ELSE (CHOOSE k \in faults : \A j \in faults : k <= j) - 1
            IN  /\ printed' = [k \in 1..stop |-> DefaultLine(reached[k])]
                /\ err' = IF faults = {} THEN err ELSE "panic"
    /\ pc' = "done"
    /\ UNCHANGED <<options, files, fileIndex, opened, events, filters, ret,
                   allowedValues, currValue, accepted, uri, parts>>

NextRun == RunSetup \/ DecodeFile \/ PrintEvents

SpecRun == InitRun /\ [][NextRun]_vars

-----------------------------------------------------------------------------
(* Claims about the query command *)

\* the file decodeAuditEvents read last: the last opened one that is a gzip
\* stream, 0 when there is none yet
LastRead ==
    LET read == {j \in DOMAIN opened : files[opened[j]].gzip}
    IN  IF read = {} THEN 0
        ELSE opened[CHOOSE j \in read : \A k \in read : k <= j]

\* the lines of list lines that decoded without error
DecodedLines(lines) == {k \in DOMAIN lines : ~lines[k].failed}

\* C14: the events handed to the filters for a file are the events of its
\* successfully decoded lines, one for each, in line order; a line that fails
\* to decode gives no event and does not end the read.
C14_FailedLinesSkipped ==
    LastRead # 0 =>
        LET lines == files[LastRead].lines
        IN  /\ Len(events) = Cardinality(DecodedLines(lines))
            /\ \A j \in DOMAIN events :
                   \E k \in DecodedLines(lines) :
                       events[j] = [lines[k].event EXCEPT !.id = EventID(LastRead, k)]
            /\ \A j, k \in DOMAIN events : j < k => events[j].id < events[k].id

\* C15: the events a file yields, and the events of several files merged,
\* are ordered by request-received timestamp, newest first.
C15_NewestFirst ==
    \A j, k \in DOMAIN ret :
        j < k => ret[j].RequestReceivedTimestamp >= ret[k].RequestReceivedTimestamp

\* flags o hold a --from, --to or --duration that does not parse
InvalidFlag(o) ==
    \/ Len(o.from) > 0 /\ ~ParseTime(o.from).ok
    \/ Len(o.to) > 0 /\ ~ParseTime(o.to).ok
    \/ Len(o.duration) > 0 /\ ~ParseDuration(o.duration).ok

\* C18: a query (a run that is not the --stats display) with an invalid
\* --duration, --from or --to ends with the error of setupFilters, and before
\* that no file is opened and no event decoded, filtered or printed; no run
\* first meets the invalid string while it processes files (parseTime's
\* log.Fatal).
C18_InvalidFlagFailsBeforeProcessing ==
    /\ err # "fatal"
    /\ (~options.stats /\ InvalidFlag(options)) =>
          /\ pc \in {"run", "done"}
          /\ opened = <<>>
          /\ events = <<>>
          /\ ret = <<>>
          /\ printed = <<>>
          /\ pc = "done" => err = "setupFilters"

\* C18 witness: a query with a --from in another format and a valid --to has
\* failed in setupFilters, with a readable file in the directory whose
\* timestamp lies before --to
C18_Witness ==
    /\ pc = "done"
    /\ err = "setupFilters"
    /\ ~options.stats
    /\ ~ParseTime(options.from).ok /\ Len(options.from) > 0
    /\ ParseTime(options.to).ok
    /\ Len(options.duration) = 0
    /\ Len(files) >= 1
    /\ files[1].gzip
    /\ files[1].timestamp < ParseTime(options.to).time
    /\ options.nodes = <<>>
    /\ opened = <<>>

\* the run is a query that has written its result in the default format and
\* come to its end without a fault
DefaultOutputDone ==
    /\ pc = "done"
    /\ err = "none"
    /\ ~options.stats
    /\ options.output # <<"openmetrics">>
    /\ fileIndex > Len(files)

\* the smaller of two numbers
Min(a, b) == IF a <= b THEN a ELSE b

\* C21: with --limit L > 0 the default output shows at most L events, the
\* first L of the result; with L = 0 it shows every event of the result.
C21_LimitBoundsOutput ==
    DefaultOutputDone =>
        LET shown == IF options.limit > 0 THEN Min(options.limit, Len(ret))
                     ELSE Len(ret)
        IN  /\ Len(printed) = shown
            /\ \A k \in 1..shown : printed[k].id = ret[k].id

\* time t lies strictly between --from and --to, as far as they are given
BetweenFromAndTo(o, t) ==
    /\ Len(o.from) > 0 => t > ParseTime(o.from).time
    /\ Len(o.to) > 0 => t < ParseTime(o.to).time

\* the query has visited every file, with the filters of its flags
AllFilesVisited ==
    /\ pc \in {"decode", "done"}
    /\ ~options.stats
    /\ fileIndex > Len(files)

\* C22: skipping files by their timestamp loses no matching event: every
\* event of a file of a selected node whose request-received timestamp lies
\* strictly between --from and --to and which every configured filter accepts
\* is in the result, whatever the timestamp of the file.
C22_PruningLosesNoEvent ==
    AllFilesVisited =>
        \A i \in DOMAIN files :
            (/\ files[i].gzip
             /\ options.nodes # <<>> => files[i].node \in ToSet(options.nodes)) =>
                \A k \in DecodedLines(files[i].lines) :
                    LET e == [files[i].lines[k].event EXCEPT !.id = EventID(i, k)]
                    IN  (/\ BetweenFromAndTo(options, e.RequestReceivedTimestamp)
                         /\ \A j \in DOMAIN filters : Accepts(filters[j], e))
                            => Holds(ret, e)

\* the events the printer of the chosen output format is given
ToBePrinted ==
    IF options.output = <<"openmetrics">> THEN ret
    ELSE Reached(ret, options.limit)

\* C23: printing never faults on an absent response status: for every event
\* that reaches the output, in the default format and in openmetrics, a line
\* is written and the run does not end in a nil-pointer panic.
C23_NoNilStatusFault ==
    /\ err # "panic"
    /\ (pc = "done" /\ AllFilesVisited) =>
          /\ Len(printed) = Len(ToBePrinted)
          /\ \A k \in DOMAIN printed : printed[k].id = ToBePrinted[k].id

====
